---- MODULE Spec2Model ----
(***************************************************************************)
(* Model of the markdown-it engine of JotDown: the footnote resolution     *)
(* pipeline (definition scanner, back-reference rule, collection rule),   *)
(* the core-rule scheduler the plugins register with, the render fragment  *)
(* cache, the delimiter pairing of the inline parser and the GFM core     *)
(* rules (heading anchors, tag filter).                                    *)
(*                                                                         *)
(* The specifications share the module, one per subsystem:                 *)
(*   Spec        one parse: block phase, inline phase, core phase          *)
(*   SchedSpec   plugin registration and rule-order resolution             *)
(*   CacheSpec   Cache::get_or_insert / Cache::clean call sequences        *)
(*   PairSpec    the delimiter scan of one inline span                     *)
(*   AnchorSpec  the heading anchor rule on one document                   *)
(*   FilterSpec  the tag filter rule on one document                       *)
(*   StoreSpec   operations on the extension store of a parser             *)
(*   DefSpec     FootnoteDefinitionScanner::is_def on one line             *)
(***************************************************************************)
EXTENDS Integers, Sequences, FiniteSets, TLC

VARIABLES
    phase,      \* "block" | "inline" | "core": position in the parse
    nodes,      \* node table: nodes[i] is node i, node 1 is the Root
    stack,      \* BlockState.node and the saved old_node values below it
    ext,        \* Root.ext, the root's extension store (type name -> value)
    cursor,     \* paragraph the inline parser is working on
    sightings,  \* history: labels in order of first sighting (Anon for inline)
    rules,      \* resolved core rule order of the parser in use
    ran,        \* number of core rules already run
    extBefore,  \* history: Root.ext at entry of the core rule that ran last
    parsed,     \* history: the tree and the store as the inline phase left them
    registered, \* SchedSpec: rule descriptors in registration order
    called,     \* SchedSpec: add functions already called
    built,      \* SchedSpec: resolved order per phase, <<>> before the build
    cache,      \* CacheSpec: Cache.cache (key -> [value, lifetime])
    panicked,   \* CacheSpec: an arithmetic overflow panic was raised
    overflow_checks, \* CacheSpec: the build checks integer overflow (debug)
    recorded,   \* CacheSpec history: lifetime recorded at the last access
    sweeps,     \* CacheSpec history: clean calls since the last access
    returned,   \* CacheSpec: Some(string the last get_or_insert returned)
    invoked,    \* CacheSpec: the last get_or_insert called render_function
    input,      \* PairSpec: the inline span read so far, text and marker runs
    ended,      \* PairSpec: the span has no further run
    pos,        \* PairSpec: number of runs the scan has dealt with
    used,       \* PairSpec: characters of run pos + 1 consumed by pairs so far
    emitted,    \* PairSpec: the nodes built so far, in order
    openers,    \* PairSpec: stack of candidate openers, nearest last
    doc,        \* AnchorSpec, FilterSpec: children of the Root, nested nodes
    docBefore,  \* history: doc at entry of the core rule that ran last
    coreRan,    \* AnchorSpec, FilterSpec: core rules that have run
    anchorOptions, \* AnchorSpec: the HeadingAnchorOptions of the parser
    line,       \* BlockState.line, the line the block parser is at
    blk_indent, \* BlockState.blk_indent
    line_offsets, \* BlockState.line_offsets (line -> offsets of the line)
    frames,     \* locals of the definition scanner runs in progress
    scanned,    \* Some(what the definition scanner returned), not yet taken
    mdExt,      \* StoreSpec: MarkdownIt.ext, the store of the parser
    lastOp,     \* StoreSpec history: the last store operation and its result
    ops,        \* StoreSpec: store operations performed so far
    lineText,   \* DefSpec: the characters of the line state.line, read so far
    indented,   \* DefSpec: the line's indent is at least md.max_indent
    isDef       \* DefSpec: Some(what is_def returned for the line)

vars == <<phase, nodes, stack, ext, cursor, sightings, rules, ran,
          extBefore, parsed, registered, called, built, cache, panicked,
          overflow_checks, recorded, sweeps, returned, invoked,
          input, ended, pos, used, emitted, openers,
          doc, docBefore, coreRan, anchorOptions,
          line, blk_indent, line_offsets, frames, scanned,
          mdExt, lastOp, ops, lineText, indented, isDef>>

footnoteVars == <<phase, nodes, stack, ext, cursor, sightings, rules,
                  ran, extBefore, parsed>>
schedVars == <<registered, called, built>>
cacheVars == <<cache, panicked, overflow_checks, recorded, sweeps,
               returned, invoked>>
pairVars == <<input, ended, pos, used, emitted, openers>>
docVars == <<doc, docBefore, coreRan, anchorOptions>>
blockVars == <<line, blk_indent, line_offsets, frames, scanned>>
storeVars == <<mdExt, lastOp, ops>>
lineVars == <<lineText, indented, isDef>>

\* ------------------------------------------------------------------ bounds

\* a block rule or an inline sighting adds its node while the table holds at
\* most this many nodes besides the Root
MaxNodes == 4
Labels == {"a", "b"}

\* width of usize in the model: counters live in 0 .. 2^UsizeBits - 1 (the
\* build has 64 bits; the arithmetic at the two ends of the range is the same)
UsizeBits == 2

\* Cache::clean calls followed per entry after its last access
MaxSweeps == 4

\* runs (text runs and marker runs) of the inline span the pairing scan reads
MaxRuns == 5

\* blocks of a document given to AddHeadingAnchors, and the heading levels
\* (of the six an ATX heading has) its headings and its options range over
MaxBlocks == 2
MaxLevel == 3

\* chunks (a '<', a '>', a name) of the raw HTML given to TagFilter
MaxChunks == 3

\* ------------------------------------------------------- Option<T> values

None == <<>>
Some(x) == <<x>>
IsSome(o) == o # <<>>
Unwrap(o) == o[1]

\* --------------------------------------------------------------- sequences

RECURSIVE SeqFilterOut(_, _)
\* s without the elements equal to x (Vec::retain(|c| c != x))
SeqFilterOut(s, x) ==
    IF s = <<>> THEN <<>>
    ELSE IF Head(s) = x THEN SeqFilterOut(Tail(s), x)
         ELSE <<Head(s)>> \o SeqFilterOut(Tail(s), x)

Range(s) == {s[i] : i \in 1..Len(s)}

Last(s) == s[Len(s)]

\* position of x in s, 0 when absent
RECURSIVE IndexFrom(_, _, _)
IndexFrom(s, x, i) ==
    IF i > Len(s) THEN 0
    ELSE IF s[i] = x THEN i ELSE IndexFrom(s, x, i + 1)

IndexOf(s, x) == IndexFrom(s, x, 1)

\* ------------------------------------------------------------ syntax tree

\* the child slot std::mem::replace leaves behind while a definition is
\* extracted (Node::new(PlaceholderNode)); it is no entry of the node table
PlaceholderNode == 0

NewNode(kind) ==
    [kind |-> kind, children |-> <<>>, label |-> None, def_id |-> None,
     inline |-> FALSE, ref_ids |-> <<>>]

\* the Root is the first node of the table
RootId == 1

KindOf(ns, n) == IF n = PlaceholderNode THEN "PlaceholderNode" ELSE ns[n].kind

\* ns with node c pushed as the last child of node p (children.push)
PushChild(ns, p, c) == [ns EXCEPT ![p].children = Append(@, c)]

RECURSIVE PreOrderFrom(_, _)
\* Node::walk: the nodes below the ids of todo, depth first, parents first
PreOrderFrom(ns, todo) ==
    IF todo = <<>> THEN <<>>
    ELSE LET n == Head(todo)
         IN IF n = PlaceholderNode THEN PreOrderFrom(ns, Tail(todo))
            ELSE <<n>> \o PreOrderFrom(ns, ns[n].children \o Tail(todo))

\* the document: every node reachable from the Root, in document order
PreOrder(ns) == PreOrderFrom(ns, <<RootId>>)

InTree(ns) == Range(PreOrder(ns))

IsDefinition(ns, n) == KindOf(ns, n) = "FootnoteDefinition"

DefinitionsInTree(ns) == {n \in InTree(ns) : IsDefinition(ns, n)}

\* the parents of n among the nodes of the document
ParentsOf(ns, n) == {p \in InTree(ns) : n \in Range(ns[p].children)}

\* -------------------------------------------------- root extension store

\* RootExtSet::new(): no value of any type
ExtNew == [t \in {} |-> None]

\* RootExtSet::get::<T>()
ExtGet(e, t) == IF t \in DOMAIN e THEN Some(e[t]) ELSE None

\* RootExtSet::insert::<T>(v): the value of type t is replaced
ExtInsert(e, t, v) == [x \in DOMAIN e \cup {t} |-> IF x = t THEN v ELSE e[x]]

\* RootExtSet::take::<T>(): the value of type t is removed and handed out
ExtTake(e, t) ==
    [store |-> [x \in DOMAIN e \ {t} |-> e[x]], ret |-> ExtGet(e, t)]

ExtGetOrInsertDefaultResets(e, t, default) == ExtInsert(e, t, default)

\* RootExtSet::get_or_insert_default::<T>()
ExtGetOrInsertDefault(e, t, default) ==
    IF t \in DOMAIN e THEN e ELSE ExtInsert(e, t, default)

\* ----------------------------------------------------------- footnote map

\* the label of an inline footnote, which has none
Anon == "^"

\* FootnoteMap::default(): id i belongs to labels[i]; refs[i] lists the
\* reference occurrences of id i in the order they were recorded
FootnoteMapDefault ==
    [labels |-> <<>>, defined |-> {}, refs |-> <<>>, ref_counter |-> 0]

LabelIds(map, label) == {i \in 1..Len(map.labels) : map.labels[i] = label}

\* FootnoteMap::add_def: the id of the label for its first definition
\* (assigned now unless a reference sighted the label first), None for a
\* label that has a definition already
AddDef(map, label) ==
    LET ids == LabelIds(map, label)
        fresh == Len(map.labels) + 1
    IN IF ids = {}
       THEN [map |-> [map EXCEPT !.labels = Append(@, label),
                                 !.refs = Append(@, <<>>),
                                 !.defined = @ \cup {fresh}],
             ret |-> Some(fresh)]
       ELSE LET id == CHOOSE i \in ids : TRUE
            IN IF id \in map.defined
               THEN [map |-> map, ret |-> None]
               ELSE [map |-> [map EXCEPT !.defined = @ \cup {id}],
                     ret |-> Some(id)]

\* FootnoteMap::add_ref: records the occurrence under the label's id (assigned
\* now when this is the first sighting); Some(<<def_id, ref_id>>) when the
\* label has a definition, None (literal text) when it has none
AddRef(map, label) ==
    LET ids == LabelIds(map, label)
        known == ids # {}
        id == IF known THEN CHOOSE i \in ids : TRUE ELSE Len(map.labels) + 1
        ref_id == map.ref_counter + 1
        m1 == IF known THEN map
              ELSE [map EXCEPT !.labels = Append(@, label),
                               !.refs = Append(@, <<>>)]
        m2 == [m1 EXCEPT !.refs[id] = Append(@, ref_id),
                         !.ref_counter = ref_id]
    IN [map |-> m2,
        ret |-> IF id \in map.defined THEN Some(<<id, ref_id>>) ELSE None]

\* FootnoteMap::add_inline_def: a definition without label, referenced once
AddInlineDef(map) ==
    LET id == Len(map.labels) + 1
        ref_id == map.ref_counter + 1
    IN [map |-> [map EXCEPT !.labels = Append(@, Anon),
                            !.refs = Append(@, <<ref_id>>),
                            !.defined = @ \cup {id},
                            !.ref_counter = ref_id],
        ret |-> <<id, ref_id>>]

\* FootnoteMap::referenced_by
ReferencedBy(map, def_id) ==
    IF def_id \in 1..Len(map.refs) THEN map.refs[def_id] ELSE <<>>

\* history: the labels sighted so far, in the order of their first sighting
Sight(seen, label) ==
    IF label # Anon /\ label \in Range(seen) THEN seen ELSE Append(seen, label)


\* ------------------------------------------------ rule registry, scheduler

Rule(name, ph, before, after) ==
    [name |-> name, phase |-> ph, before |-> before, after |-> after]

\* MarkdownIt::new(): the built-in core rule the plugins order themselves by
BuiltinRules == <<Rule("InlineParserRule", "core", {}, {})>>

\* the rules each add function registers, with their ordering constraints
BackRefsAdd == <<Rule("FootnoteBackrefRule", "core", {}, {})>>

CollectAdd == <<Rule("FootnoteCollectRule", "core", {}, {})>>

DefinitionsAdd ==
    <<Rule("FootnoteDefinitionScanner", "block", {"ReferenceScanner"}, {})>>

TagFilterAdd == <<Rule("TagFilter", "core", {}, {"InlineParserRule"})>>

HeadingAnchorsAdd ==
    <<Rule("AddHeadingAnchors", "core", {}, {"InlineParserRule"})>>

\* plugins::cmark::add: registers the block rule the definition scanner
\* orders itself against
CmarkAdd == <<Rule("ReferenceScanner", "block", {}, {})>>

\* a block rule of a further plugin: the descriptors its add function may
\* register through add_rule().before::<R>() / .after::<R>()
PluginRules ==
    {Rule("PluginBlockRule", "block", before, after) :
        before \in {{}, {"ReferenceScanner"}, {"FootnoteDefinitionScanner"}},
        after \in {{}, {"ReferenceScanner"}}}

AddFns ==
    {"cmark", "definitions", "back_refs", "collect", "tag_filter",
     "heading_anchors"}

Registration(fn) ==
    CASE fn = "cmark" -> CmarkAdd
      [] fn = "definitions" -> DefinitionsAdd
      [] fn = "back_refs" -> BackRefsAdd
      [] fn = "collect" -> CollectAdd
      [] fn = "tag_filter" -> TagFilterAdd
      [] fn = "heading_anchors" -> HeadingAnchorsAdd

\* a reading of the constraints that honours before::<R>() alone
MustPrecedeBeforeOnly(x, y) == y.name \in x.before

\* rule x is declared to run before rule y
MustPrecede(x, y) == y.name \in x.before \/ x.name \in y.after

RECURSIVE ResolveFrom(_, _)
\* the deterministic topological sort: of the rules not yet placed, the one
\* registered first among those whose predecessors are all placed comes next
ResolveFrom(rs, placed) ==
    LET left == {i \in 1..Len(rs) : i \notin Range(placed)}
        ready == {i \in left :
                    \A j \in left : j # i => ~MustPrecede(rs[j], rs[i])}
    IN IF ready = {} THEN placed
       ELSE LET i == CHOOSE k \in ready : \A m \in ready : k <= m
            IN ResolveFrom(rs, Append(placed, i))

\* the resolved order of the rules of one phase, as rule names; shorter than
\* the registration when the constraints have a cycle
Resolve(regs, ph) ==
    LET rs == SelectSeq(regs, LAMBDA r : r.phase = ph)
        order == ResolveFrom(rs, <<>>)
    IN [k \in 1..Len(order) |-> rs[order[k]].name]

RECURSIVE RegisterAll(_, _)
\* the registry after the add functions of fns were called in that order
RegisterAll(regs, fns) ==
    IF fns = <<>> THEN regs
    ELSE RegisterAll(regs \o Registration(Head(fns)), Tail(fns))

FootnoteCoreRules == {"FootnoteBackrefRule", "FootnoteCollectRule"}

\* the two footnote core rules in the order a parser runs them, after its
\* plugins' add functions were called in the order fns
FootnoteRuleOrder(fns) ==
    SelectSeq(Resolve(RegisterAll(BuiltinRules, fns), "core"),
              LAMBDA r : r \in FootnoteCoreRules)


\* ------------------------------------------------------------ block phase

\* a scanner that builds the definition without recording its label
ScannerRecordNothing(e, label) == [ext |-> e, def_id |-> None]

\* FootnoteDefinitionScanner::run, recording the label: the footnote map is
\* created on first use and gives the definition its id
ScannerRecord(e, label) ==
    LET e1 == ExtGetOrInsertDefault(e, "FootnoteMap", FootnoteMapDefault)
        r == AddDef(e1["FootnoteMap"], label)
    IN [ext |-> ExtInsert(e1, "FootnoteMap", r.map), def_id |-> r.ret]

\* BlockState.line_offsets holds one LineOffsets per line
LineNumbers == 0..(MaxNodes + 1)
LineOffsets(first_nonspace, indent_nonspace) ==
    [first_nonspace |-> first_nonspace, indent_nonspace |-> indent_nonspace]

\* "[^]:".len()
MarkerLen == 4
\* label.len(): every label of Labels is one byte long
LabelLen(label) == 1
\* the spaces is_def counted after the colon
Spaces == 0..1

\* the first line's offsets moved past the marker, the label and the spaces
SkipMarker(o, label, spaces) ==
    LineOffsets(o.first_nonspace + MarkerLen + LabelLen(label) + spaces,
                o.indent_nonspace + MarkerLen + spaces)

\* state.blk_indent += 4 before, -= 4 after the nested tokenize
BlkIndentEnter(b) == b + 4
BlkIndentLeaveKept(b) == b
BlkIndentLeave(b) == b - 4

\* FootnoteDefinitionScanner::run up to its nested tokenize call: the new
\* definition becomes state.node, the old node is kept to be restored, the
\* first line and its offsets are kept, the offsets are moved past the marker
\* and the block indent is raised
DefinitionScannerRun(label, spaces) ==
    /\ phase = "block"
    /\ scanned = None
    /\ Len(nodes) <= MaxNodes
    /\ LET rec == ScannerRecord(ext, label)
           new_node == [NewNode("FootnoteDefinition") EXCEPT
                            !.label = Some(label), !.def_id = rec.def_id]
       IN /\ ext' = rec.ext
          /\ nodes' = Append(nodes, new_node)
          /\ stack' = Append(stack, Len(nodes) + 1)
    /\ sightings' = Sight(sightings, label)
    /\ frames' = Append(frames,
                   [first_line |-> line,
                    first_line_offsets |-> line_offsets[line],
                    atEntry |-> [line |-> line, blk_indent |-> blk_indent,
                                 line_offsets |-> line_offsets,
                                 node |-> Last(stack)]])
    /\ line_offsets' = [line_offsets EXCEPT
                            ![line] = SkipMarker(@, label, spaces)]
    /\ blk_indent' = BlkIndentEnter(blk_indent)
    /\ UNCHANGED <<phase, cursor, rules, ran, extBefore, parsed>>
    /\ UNCHANGED <<line, scanned>>
    /\ UNCHANGED <<lineVars, storeVars, schedVars, cacheVars, pairVars, docVars>>

\* the line the nested tokenize stops at: past the blocks it parsed, or past
\* the first line when the rest of that line was empty
TokenizeEnd(first_line, l) == IF l = first_line THEN first_line + 1 ELSE l

\* FootnoteDefinitionScanner::run after the nested tokenize returned: the
\* block indent is lowered, the lines are counted, the first line's offsets,
\* state.line and state.node are put back, and the definition is returned
\* with the line count
DefinitionScannerReturn ==
    /\ phase = "block"
    /\ scanned = None
    /\ Len(stack) > 1
    /\ IsDefinition(nodes, Last(stack))
    /\ LET f == Last(frames)
           num_lines == TokenizeEnd(f.first_line, line) - f.first_line
       IN /\ blk_indent' = BlkIndentLeave(blk_indent)
          /\ line_offsets' = [line_offsets EXCEPT
                                  ![f.first_line] = f.first_line_offsets]
          /\ line' = f.first_line
          /\ scanned' = Some([node |-> Last(stack), num_lines |-> num_lines])
    /\ stack' = SubSeq(stack, 1, Len(stack) - 1)
    /\ frames' = SubSeq(frames, 1, Len(frames) - 1)
    /\ UNCHANGED <<phase, nodes, ext, cursor, sightings, rules, ran,
                   extBefore, parsed>>
    /\ UNCHANGED <<lineVars, storeVars, schedVars, cacheVars, pairVars, docVars>>

\* the block parser takes what the rule returned: the node is pushed onto
\* state.node's children and state.line moves on by the line count
BlockAccept ==
    /\ phase = "block"
    /\ scanned # None
    /\ nodes' = PushChild(nodes, Last(stack), Unwrap(scanned).node)
    /\ line' = line + Unwrap(scanned).num_lines
    /\ scanned' = None
    /\ UNCHANGED <<phase, stack, ext, cursor, sightings, rules, ran,
                   extBefore, parsed>>
    /\ UNCHANGED <<blk_indent, line_offsets, frames>>
    /\ UNCHANGED <<lineVars, storeVars, schedVars, cacheVars, pairVars, docVars>>

\* another container block rule (a blockquote) entering its nested tokenize
BlockquoteRun ==
    /\ phase = "block"
    /\ scanned = None
    /\ Len(nodes) <= MaxNodes
    /\ nodes' = Append(nodes, NewNode("Blockquote"))
    /\ stack' = Append(stack, Len(nodes) + 1)
    /\ UNCHANGED <<phase, ext, cursor, sightings, rules, ran, extBefore, parsed>>
    /\ UNCHANGED <<lineVars, storeVars, blockVars, schedVars, cacheVars, pairVars, docVars>>

BlockquoteReturn ==
    /\ phase = "block"
    /\ scanned = None
    /\ Len(stack) > 1
    /\ KindOf(nodes, Last(stack)) = "Blockquote"
    /\ stack' = SubSeq(stack, 1, Len(stack) - 1)
    /\ nodes' = PushChild(nodes, stack[Len(stack) - 1], Last(stack))
    /\ UNCHANGED <<phase, ext, cursor, sightings, rules, ran, extBefore, parsed>>
    /\ UNCHANGED <<lineVars, storeVars, blockVars, schedVars, cacheVars, pairVars, docVars>>

\* a leaf block rule: a paragraph of one line pushed onto state.node
ParagraphRun ==
    /\ phase = "block"
    /\ scanned = None
    /\ Len(nodes) <= MaxNodes
    /\ nodes' = PushChild(Append(nodes, NewNode("Paragraph")),
                          Last(stack), Len(nodes) + 1)
    /\ line' = line + 1
    /\ UNCHANGED <<phase, stack, ext, cursor, sightings, rules, ran,
                   extBefore, parsed>>
    /\ UNCHANGED <<blk_indent, line_offsets, frames, scanned>>
    /\ UNCHANGED <<lineVars, storeVars, schedVars, cacheVars, pairVars, docVars>>

\* ReferenceScanner, a leaf block rule: a link reference definition becomes a
\* Definition node and is recorded in the link reference map, a value of
\* another type that the block phase leaves in the root's store
ReferenceScannerRun ==
    /\ phase = "block"
    /\ scanned = None
    /\ Len(nodes) <= MaxNodes
    /\ "ReferenceMap" \notin DOMAIN ext
    /\ ext' = ExtGetOrInsertDefault(ext, "ReferenceMap", "link references")
    /\ nodes' = PushChild(Append(nodes, NewNode("Definition")),
                          Last(stack), Len(nodes) + 1)
    /\ line' = line + 1
    /\ UNCHANGED <<phase, stack, cursor, sightings, rules, ran, extBefore, parsed>>
    /\ UNCHANGED <<blk_indent, line_offsets, frames, scanned>>
    /\ UNCHANGED <<lineVars, storeVars, schedVars, cacheVars, pairVars, docVars>>

\* the block parser reached the end of the input with every nested tokenize
\* returned; the inline parser starts at the first node
BlockDone ==
    /\ phase = "block"
    /\ scanned = None
    /\ Len(stack) = 1
    /\ phase' = "inline"
    /\ cursor' = RootId
    /\ UNCHANGED <<nodes, stack, ext, sightings, rules, ran, extBefore, parsed>>
    /\ UNCHANGED <<lineVars, storeVars, blockVars, schedVars, cacheVars, pairVars, docVars>>

\* ----------------------------------------------------------- inline phase

\* the paragraphs the inline parser has not left behind yet
OpenParagraphs ==
    {p \in InTree(nodes) : KindOf(nodes, p) = "Paragraph" /\ p >= cursor}

\* a footnote reference [^label] in paragraph p: a FootnoteReference node when
\* the label has a definition, literal text when it has none
InlineReference(p, label) ==
    /\ phase = "inline"
    /\ Len(nodes) <= MaxNodes
    /\ p \in OpenParagraphs
    /\ LET e1 == ExtGetOrInsertDefault(ext, "FootnoteMap", FootnoteMapDefault)
           r == AddRef(e1["FootnoteMap"], label)
           node == IF IsSome(r.ret)
                   THEN [NewNode("FootnoteReference") EXCEPT
                            !.label = Some(label),
                            !.def_id = Some(Unwrap(r.ret)[1]),
                            !.ref_ids = <<Unwrap(r.ret)[2]>>]
                   ELSE [NewNode("Text") EXCEPT !.label = Some(label)]
       IN /\ ext' = ExtInsert(e1, "FootnoteMap", r.map)
          /\ nodes' = PushChild(Append(nodes, node), p, Len(nodes) + 1)
    /\ cursor' = p
    /\ sightings' = Sight(sightings, label)
    /\ UNCHANGED <<phase, stack, rules, ran, extBefore, parsed>>
    /\ UNCHANGED <<lineVars, storeVars, blockVars, schedVars, cacheVars, pairVars, docVars>>

\* an inline footnote ^[text] in paragraph p: the definition sits at the
\* reference site, marked inline, with its text as its child
InlineFootnote(p) ==
    /\ phase = "inline"
    /\ Len(nodes) <= MaxNodes
    /\ p \in OpenParagraphs
    /\ LET e1 == ExtGetOrInsertDefault(ext, "FootnoteMap", FootnoteMapDefault)
           r == AddInlineDef(e1["FootnoteMap"])
           text == Len(nodes) + 1
           def == Len(nodes) + 2
           def_node == [NewNode("FootnoteDefinition") EXCEPT
                            !.def_id = Some(r.ret[1]), !.inline = TRUE,
                            !.children = <<text>>]
       IN /\ ext' = ExtInsert(e1, "FootnoteMap", r.map)
          /\ nodes' = PushChild(nodes \o <<NewNode("Text"), def_node>>, p, def)
    /\ cursor' = p
    /\ sightings' = Sight(sightings, Anon)
    /\ UNCHANGED <<phase, stack, rules, ran, extBefore, parsed>>
    /\ UNCHANGED <<lineVars, storeVars, blockVars, schedVars, cacheVars, pairVars, docVars>>

\* the inline parser is through; the core rules that follow are the footnote
\* rules of a parser whose plugins registered them in one order or the other
\* (the registry resolves its order when the phase first uses it)
InlineDone ==
    /\ phase = "inline"
    /\ phase' = "core"
    /\ \E fns \in {<<"back_refs", "collect">>, <<"collect", "back_refs">>} :
           rules' = FootnoteRuleOrder(fns)
    /\ parsed' = [nodes |-> nodes, ext |-> ext]
    /\ UNCHANGED <<nodes, stack, ext, cursor, sightings, ran, extBefore>>
    /\ UNCHANGED <<lineVars, storeVars, blockVars, schedVars, cacheVars, pairVars, docVars>>


\* ------------------------------------------- core phase: back references

\* a render that emits the back link of the first reference id only
AnchorRenderFirstOnly(ref_ids) ==
    IF ref_ids = <<>> THEN <<>> ELSE <<<<"#fnref", ref_ids[1]>>>>

\* FootnoteRefAnchor::render: one back link per reference id, as the href of
\* the <a> it opens
AnchorRender(ref_ids) == [i \in 1..Len(ref_ids) |-> <<"#fnref", ref_ids[i]>>]

\* the ids a definition is referenced by; none for a definition without id
BackrefIds(map, def_node) ==
    IF IsSome(def_node.def_id) THEN ReferencedBy(map, Unwrap(def_node.def_id))
    ELSE <<>>

\* the anchor always pushed onto the definition itself
BackrefTargetDefinition(ns, n) == n

\* the node the anchor of definition n is pushed onto: the final child when
\* that is a paragraph, the definition itself otherwise
BackrefTarget(ns, n) ==
    IF ns[n].children # <<>> /\ KindOf(ns, Last(ns[n].children)) = "Paragraph"
    THEN Last(ns[n].children)
    ELSE n

\* the closure FootnoteBackrefRule::run passes to walk_mut
BackrefVisit(ns, map, n) ==
    IF ~IsDefinition(ns, n) THEN ns
    ELSE LET ref_ids == BackrefIds(map, ns[n])
             anchor == [NewNode("FootnoteRefAnchor") EXCEPT !.ref_ids = ref_ids]
         IN IF ref_ids = <<>> THEN ns
            ELSE PushChild(Append(ns, anchor), BackrefTarget(ns, n), Len(ns) + 1)

RECURSIVE BackrefWalk(_, _, _)
\* root.walk_mut(closure): each node is visited before its children, and the
\* children walked are the ones the node has after its visit
BackrefWalk(ns, map, todo) ==
    IF todo = <<>> THEN ns
    ELSE LET n == Head(todo)
             ns1 == BackrefVisit(ns, map, n)
         IN BackrefWalk(ns1, map, ns1[n].children \o Tail(todo))

\* FootnoteBackrefRule::run on the tree ns of a root whose store is e: the
\* store is taken (the root keeps an empty one) and put back at the end
BackrefRun(ns, e) ==
    LET root_ext == e
        map == ExtGet(root_ext, "FootnoteMap")
    IN IF ~IsSome(map) THEN [nodes |-> ns, ext |-> ExtNew]
       ELSE [nodes |-> BackrefWalk(ns, Unwrap(map), <<RootId>>),
             ext |-> root_ext]

\* --------------------------------------------------- core phase: collect

\* a definition is kept when it has an id that is referenced
CollectKeeps(map, def_node) ==
    /\ IsSome(def_node.def_id)
    /\ ReferencedBy(map, Unwrap(def_node.def_id)) # <<>>

\* an inline definition gets its children wrapped in a new paragraph
CollectWrapInline(ns, c) ==
    IF ns[c].inline
    THEN LET para == [NewNode("Paragraph") EXCEPT !.children = ns[c].children]
         IN [Append(ns, para) EXCEPT ![c].children = <<Len(ns) + 1>>]
    ELSE ns

RECURSIVE CollectChildren(_, _, _, _)
\* the loop over node.children.iter_mut(), from child i on: st.defs is the
\* vector of extracted definitions
CollectChildren(st, map, n, i) ==
    IF i > Len(st.nodes[n].children) THEN st
    ELSE LET c == st.nodes[n].children[i]
         IN IF ~IsDefinition(st.nodes, c)
            THEN CollectChildren(st, map, n, i + 1)
            ELSE LET replaced ==
                         [st.nodes EXCEPT ![n].children[i] = PlaceholderNode]
                 IN IF ~CollectKeeps(map, replaced[c])
                    THEN CollectChildren([st EXCEPT !.nodes = replaced],
                                         map, n, i + 1)
                    ELSE CollectChildren(
                             [nodes |-> CollectWrapInline(replaced, c),
                              defs |-> Append(st.defs, c)],
                             map, n, i + 1)

CollectVisitDropsSiblings(st, map, n) ==
    [CollectChildren(st, map, n, 1) EXCEPT !.nodes[n].children = <<>>]

\* the closure FootnoteCollectRule::run passes to walk_mut: the loop, then
\* node.children.retain(not a placeholder)
CollectVisit(st, map, n) ==
    LET st1 == CollectChildren(st, map, n, 1)
    IN [st1 EXCEPT !.nodes[n].children = SeqFilterOut(@, PlaceholderNode)]

RECURSIVE CollectWalk(_, _, _)
\* root.walk_mut(closure), as in BackrefWalk
CollectWalk(st, map, todo) ==
    IF todo = <<>> THEN st
    ELSE LET n == Head(todo)
             st1 == CollectVisit(st, map, n)
         IN CollectWalk(st1, map, st1.nodes[n].children \o Tail(todo))

\* the container with the definitions as children, pushed onto the root
CollectWrap(ns, defs) ==
    LET wrapper == [NewNode("FootnotesContainerNode") EXCEPT !.children = defs]
    IN PushChild(Append(ns, wrapper), RootId, Len(ns) + 1)

\* FootnoteCollectRule::run on the tree ns of a root whose store is e
CollectRun(ns, e) ==
    LET root_ext == e
        map == ExtGet(root_ext, "FootnoteMap")
    IN IF ~IsSome(map) THEN [nodes |-> ns, ext |-> ExtNew]
       ELSE LET st == CollectWalk([nodes |-> ns, defs |-> <<>>], Unwrap(map),
                                  <<RootId>>)
            IN IF st.defs = <<>> THEN [nodes |-> st.nodes, ext |-> ExtNew]
               ELSE [nodes |-> CollectWrap(st.nodes, st.defs),
                     ext |-> root_ext]

\* --------------------------------------------------------- core phase

NextRule == IF ran < Len(rules) THEN rules[ran + 1] ELSE "none"

FootnoteBackrefRuleRun ==
    /\ phase = "core"
    /\ NextRule = "FootnoteBackrefRule"
    /\ LET out == BackrefRun(nodes, ext)
       IN nodes' = out.nodes /\ ext' = out.ext
    /\ extBefore' = ext
    /\ ran' = ran + 1
    /\ UNCHANGED <<phase, stack, cursor, sightings, rules, parsed>>
    /\ UNCHANGED <<lineVars, storeVars, blockVars, schedVars, cacheVars, pairVars, docVars>>

FootnoteCollectRuleRun ==
    /\ phase = "core"
    /\ NextRule = "FootnoteCollectRule"
    /\ LET out == CollectRun(nodes, ext)
       IN nodes' = out.nodes /\ ext' = out.ext
    /\ extBefore' = ext
    /\ ran' = ran + 1
    /\ UNCHANGED <<phase, stack, cursor, sightings, rules, parsed>>
    /\ UNCHANGED <<lineVars, storeVars, blockVars, schedVars, cacheVars, pairVars, docVars>>

\* ------------------------------------------------------- initial values

\* Cache::new(): no entry
CacheNew == [k \in {} |-> None]

\* Root::new: the tree is the Root alone and its store is empty
LineIdle ==
    /\ lineText = <<>>
    /\ indented = FALSE
    /\ isDef = None

StoreIdle ==
    /\ mdExt = ExtNew
    /\ lastOp = None
    /\ ops = 0

BlockIdle ==
    /\ line = 0
    /\ blk_indent = 0
    /\ line_offsets = [l \in LineNumbers |-> LineOffsets(0, 0)]
    /\ frames = <<>>
    /\ scanned = None

FootnoteIdle ==
    /\ phase = "block"
    /\ nodes = <<NewNode("Root")>>
    /\ stack = <<RootId>>
    /\ ext = ExtNew
    /\ cursor = RootId
    /\ sightings = <<>>
    /\ rules = <<>>
    /\ ran = 0
    /\ extBefore = ExtNew
    /\ parsed = [nodes |-> <<NewNode("Root")>>, ext |-> ExtNew]

SchedIdle == registered = BuiltinRules /\ called = {} /\ built = None

CacheIdle ==
    /\ cache = CacheNew
    /\ panicked = FALSE
    /\ overflow_checks = FALSE
    /\ recorded = [k \in {} |-> 0]
    /\ sweeps = [k \in {} |-> 0]
    /\ returned = None
    /\ invoked = FALSE

\* the delimiter scan before its first run
PairIdle ==
    /\ input = <<>>
    /\ ended = FALSE
    /\ pos = 0
    /\ used = 0
    /\ emitted = <<>>
    /\ openers = <<>>

\* HeadingAnchorOptions::default()
HeadingAnchorOptionsDefault ==
    [min_level |-> 1, max_level |-> 6, id_on_heading |-> FALSE,
     position |-> "Start", classes |-> <<"anchor">>, inner_html |-> <<"svg">>]

\* a parsed document before its core rules run
DocIdle ==
    /\ doc = <<>>
    /\ docBefore = <<>>
    /\ coreRan = {}
    /\ anchorOptions = HeadingAnchorOptionsDefault

\* ------------------------------------------------ render fragment cache

\* strings are sequences of characters
Str(c) == <<c>>

PluginNames == {Str("p"), <<"p", "_", "k">>}
CacheKeys == {Str("k"), <<"k", "_", "k">>}

\* format!("{}_{}", plugin_name, key)
CacheEntryKey(plugin_name, key) == plugin_name \o Str("_") \o key

\* the fragment render_function(key) returns
RenderFunction(key) == <<"rendered">> \o key

UsizeModulus == 2 ^ UsizeBits

\* Cache.live_length: Cache::new() sets it, nothing changes it
live_length == 0

\* usize addition and subtraction: a result out of range panics in a build
\* with overflow checks and wraps around in a build without
Overflows(x) == x < 0 \/ x >= UsizeModulus

Wrap(x) == x % UsizeModulus

\* HashMap::entry(k).and_modify(lifetime += 1).or_insert_with(render, live_length)
CacheAccess(c, k, key) ==
    IF k \in DOMAIN c
    THEN [c EXCEPT ![k].lifetime = Wrap(@ + 1)]
    ELSE [x \in DOMAIN c \cup {k} |->
            IF x = k THEN [value |-> RenderFunction(key), lifetime |-> live_length]
            ELSE c[x]]

\* HashMap::retain(|_, v| { v.1 -= 1; v.1 > 0 })
CacheSweep(c) ==
    LET swept == [k \in DOMAIN c |-> [c[k] EXCEPT !.lifetime = Wrap(@ - 1)]]
        kept == {k \in DOMAIN c : swept[k].lifetime > 0}
    IN [k \in kept |-> swept[k]]

\* Cache::get_or_insert(plugin_name, key, render_function)
GetOrInsert(plugin_name, key) ==
    LET k == CacheEntryKey(plugin_name, key)
        overflow == k \in DOMAIN cache /\ Overflows(cache[k].lifetime + 1)
    IN /\ ~panicked
       /\ IF overflow /\ overflow_checks
          THEN /\ panicked' = TRUE
               /\ returned' = None
               /\ invoked' = FALSE
               /\ UNCHANGED <<cache, recorded, sweeps>>
          ELSE /\ cache' = CacheAccess(cache, k, key)
               /\ invoked' = (k \notin DOMAIN cache)
               /\ returned' = Some(cache'[k].value)
               /\ recorded' = [x \in DOMAIN recorded \cup {k} |->
                                 IF x = k THEN cache'[k].lifetime
                                 ELSE recorded[x]]
               /\ sweeps' = [x \in DOMAIN sweeps \cup {k} |->
                               IF x = k THEN 0 ELSE sweeps[x]]
               /\ UNCHANGED panicked
       /\ UNCHANGED overflow_checks
       /\ UNCHANGED <<lineVars, storeVars, footnoteVars, blockVars, schedVars, pairVars, docVars>>

\* Cache::clean()
Clean ==
    LET overflow == \E k \in DOMAIN cache : Overflows(cache[k].lifetime - 1)
    IN /\ ~panicked
       /\ \A k \in DOMAIN sweeps : sweeps[k] < MaxSweeps
       /\ IF overflow /\ overflow_checks
          THEN panicked' = TRUE /\ UNCHANGED <<cache, sweeps>>
          ELSE /\ cache' = CacheSweep(cache)
               /\ sweeps' = [k \in DOMAIN sweeps |-> sweeps[k] + 1]
               /\ UNCHANGED panicked
       /\ UNCHANGED <<recorded, overflow_checks, returned, invoked>>
       /\ UNCHANGED <<lineVars, storeVars, footnoteVars, blockVars, schedVars, pairVars, docVars>>

\* Cache::new() in a build with or without overflow checks
CacheInit ==
    /\ cache = CacheNew
    /\ panicked = FALSE
    /\ overflow_checks \in BOOLEAN
    /\ recorded = [k \in {} |-> 0]
    /\ sweeps = [k \in {} |-> 0]
    /\ returned = None
    /\ invoked = FALSE
    /\ FootnoteIdle /\ BlockIdle /\ StoreIdle /\ LineIdle
    /\ SchedIdle
    /\ PairIdle
    /\ DocIdle

CacheNext ==
    \/ \E plugin_name \in PluginNames, key \in CacheKeys :
           GetOrInsert(plugin_name, key)
    \/ Clean

CacheSpec == CacheInit /\ [][CacheNext]_vars

\* ------------------------------------------------ plugin registration

\* one of the add functions is called on the parser under construction
CallAdd(fn) ==
    /\ built = None
    /\ fn \notin called
    /\ registered' = registered \o Registration(fn)
    /\ called' = called \cup {fn}
    /\ UNCHANGED built
    /\ UNCHANGED <<lineVars, storeVars, footnoteVars, blockVars, cacheVars, pairVars, docVars>>

\* a further plugin registers its block rule, once
AddRule(r) ==
    /\ built = None
    /\ \A i \in 1..Len(registered) : registered[i].name # r.name
    /\ registered' = Append(registered, r)
    /\ UNCHANGED <<called, built>>
    /\ UNCHANGED <<lineVars, storeVars, footnoteVars, blockVars, cacheVars, pairVars, docVars>>

\* first use of the parser: each phase's rule order is resolved, once
Build ==
    /\ built = None
    /\ built' = Some([core |-> Resolve(registered, "core"),
                      block |-> Resolve(registered, "block")])
    /\ UNCHANGED <<registered, called>>
    /\ UNCHANGED <<lineVars, storeVars, footnoteVars, blockVars, cacheVars, pairVars, docVars>>

SchedInit == FootnoteIdle /\ BlockIdle /\ StoreIdle /\ LineIdle /\ SchedIdle /\ CacheIdle /\ PairIdle /\ DocIdle

SchedNext ==
    \/ \E fn \in AddFns : CallAdd(fn)
    \/ \E r \in PluginRules : AddRule(r)
    \/ Build

SchedSpec == SchedInit /\ [][SchedNext]_vars


\* ------------------------------------------------ delimiter pairing scan

\* emph_pair::add_with::<MARKER, LENGTH, CAN_SPLIT_WORD>(md, constructor): the
\* constructs the plugins register, per marker and weight
EmphPairs ==
    {[marker |-> "*", weight |-> 1, intraword |-> TRUE, kind |-> "Em"],
     [marker |-> "_", weight |-> 1, intraword |-> FALSE, kind |-> "Em"],
     [marker |-> "*", weight |-> 2, intraword |-> TRUE, kind |-> "Strong"],
     [marker |-> "_", weight |-> 2, intraword |-> FALSE, kind |-> "Strong"],
     [marker |-> "~", weight |-> 2, intraword |-> TRUE,
      kind |-> "Strikethrough"]}

Markers == {e.marker : e \in EmphPairs}

WeightsOf(m) == {e.weight : e \in {x \in EmphPairs : x.marker = m}}

IntrawordLegal(m) == \E e \in EmphPairs : e.marker = m /\ e.intraword

KindFor(m, w) == (CHOOSE e \in EmphPairs : e.marker = m /\ e.weight = w).kind

\* the runs of an inline span: a text run is made of word characters ("a") or
\* of blanks (" "),
\* a marker run is a marker character repeated len times
TextRun(c) == [kind |-> "Text", marker |-> c, len |-> 0, children |-> <<>>]

MarkerRun(m, n) == [kind |-> "Marker", marker |-> m, len |-> n, children |-> <<>>]

Wrapped(k, m, w, inner) == [kind |-> k, marker |-> m, len |-> w, children |-> inner]

\* run lengths per marker: '*' up to 3 for the multiple-of-3 cases, '_' light
\* and heavy, '~' of the one length its construct has
RunLengths(m) == IF m = "*" THEN 1..3 ELSE IF m = "_" THEN 1..2 ELSE {2}

Runs ==
    {TextRun(c) : c \in {"a", " "}}
        \cup UNION {{MarkerRun(m, n) : n \in RunLengths(m)} : m \in Markers}

\* the character class on either side of run i: the ends of the span count as
\* whitespace, a neighbouring marker run is punctuation
ClassOf(r) ==
    IF r.kind = "Marker" THEN "punct"
    ELSE IF r.marker = " " THEN "space" ELSE "word"

PrevClass(i) == IF i = 1 THEN "space" ELSE ClassOf(input[i - 1])

NextClass(i) == IF i = Len(input) THEN "space" ELSE ClassOf(input[i + 1])

\* flanking: a run can open when the character after it is not whitespace and,
\* for a marker that may not split a word, the character before it is not a
\* word character; closing is the mirror image
CanOpen(i) ==
    /\ NextClass(i) # "space"
    /\ IntrawordLegal(input[i].marker) \/ PrevClass(i) # "word"

CanClose(i) ==
    /\ PrevClass(i) # "space"
    /\ IntrawordLegal(input[i].marker) \/ NextClass(i) # "word"

\* the "multiple of 3" tie-break of CommonMark (emphasis rules 9 and 10)
\* applies when one of the two runs can both open and close, the case of two
\* such runs included
RuleOf3NeverRejects(o, can_open, n) == FALSE

RuleOf3Rejects(o, can_open, n) ==
    /\ o.can_close \/ can_open
    /\ (o.orig + n) % 3 = 0
    /\ ~(o.orig % 3 = 0 /\ n % 3 = 0)

\* the length a pair consumes from each run: 2 when both runs have 2
\* characters left and the marker has a heavy construct, else 1 when it has a
\* light one, else 0 (the runs cannot pair)
PairWeight(m, left, right) ==
    IF left >= 2 /\ right >= 2 /\ 2 \in WeightsOf(m) THEN 2
    ELSE IF left >= 1 /\ right >= 1 /\ 1 \in WeightsOf(m) THEN 1
    ELSE 0

\* the run under the scan, what is left of it, and what it may do
Current == input[pos + 1]

\* a scan that forgets what earlier pairs took from the run
RemainingWhole == Current.len

Remaining == Current.len - used

\* the run under the scan has its lookahead: the next run or the end of input
Ready == pos < Len(input) /\ (ended \/ pos + 1 < Len(input))

\* opener k of the stack pairs with the run under the scan
Compatible(k) ==
    LET o == openers[k]
    IN /\ o.marker = Current.marker
       /\ PairWeight(o.marker, emitted[o.at].len, Remaining) > 0
       /\ ~RuleOf3Rejects(o, CanOpen(pos + 1), Current.len)

\* the nearest compatible opener, 0 when there is none
NearestOpener ==
    LET ks == {k \in 1..Len(openers) : Compatible(k)}
    IN IF ks = {} THEN 0 ELSE CHOOSE k \in ks : \A j \in ks : j <= k

\* the span gets its next run; runs are maximal, so that neither two text runs
\* nor two runs of one marker are neighbours
ReadRun(r) ==
    /\ ~ended
    /\ Len(input) < MaxRuns
    /\ Len(input) <= pos + 1
    /\ input # <<>> =>
           /\ Last(input).marker # r.marker
           /\ ~(Last(input).kind = "Text" /\ r.kind = "Text")
    /\ input' = Append(input, r)
    /\ UNCHANGED <<ended, pos, used, emitted, openers>>
    /\ UNCHANGED <<lineVars, storeVars, footnoteVars, blockVars, schedVars, cacheVars, docVars>>

EndOfInput ==
    /\ ~ended
    /\ Len(input) <= pos + 1
    /\ ended' = TRUE
    /\ UNCHANGED <<input, pos, used, emitted, openers>>
    /\ UNCHANGED <<lineVars, storeVars, footnoteVars, blockVars, schedVars, cacheVars, docVars>>

\* a text run is emitted as it is
ScanText ==
    /\ Ready
    /\ Current.kind = "Text"
    /\ emitted' = Append(emitted, Current)
    /\ pos' = pos + 1
    /\ UNCHANGED <<input, ended, used, openers>>
    /\ UNCHANGED <<lineVars, storeVars, footnoteVars, blockVars, schedVars, cacheVars, docVars>>

\* a closer meets its nearest compatible opener: both give up the pair's
\* length, the nodes between them are wrapped, the openers passed over are
\* dropped and what is left of the opener stays a candidate in its place
Pair ==
    /\ Ready
    /\ Current.kind = "Marker"
    /\ CanClose(pos + 1)
    /\ Remaining > 0
    /\ NearestOpener > 0
    /\ LET k == NearestOpener
           o == openers[k]
           w == PairWeight(o.marker, emitted[o.at].len, Remaining)
           left == emitted[o.at].len - w
           wrap == Wrapped(KindFor(o.marker, w), o.marker, w,
                           SubSeq(emitted, o.at + 1, Len(emitted)))
       IN /\ emitted' = SubSeq(emitted, 1, o.at - 1)
                      \o (IF left > 0
                          THEN <<MarkerRun(o.marker, left)>> ELSE <<>>)
                      \o <<wrap>>
          /\ openers' = SubSeq(openers, 1, IF left > 0 THEN k ELSE k - 1)
          /\ used' = used + w
    /\ UNCHANGED <<input, ended, pos>>
    /\ UNCHANGED <<lineVars, storeVars, footnoteVars, blockVars, schedVars, cacheVars, docVars>>

\* a run that finds no opener (any more): what is left of it is emitted as
\* marker text, and is a candidate opener when it can open
PushRun ==
    /\ Ready
    /\ Current.kind = "Marker"
    /\ ~(CanClose(pos + 1) /\ Remaining > 0 /\ NearestOpener > 0)
    /\ IF Remaining > 0
       THEN /\ emitted' = Append(emitted, MarkerRun(Current.marker, Remaining))
            /\ openers' =
                   IF CanOpen(pos + 1)
                   THEN Append(openers,
                               [at |-> Len(emitted) + 1, marker |-> Current.marker,
                                orig |-> Current.len,
                                can_close |-> CanClose(pos + 1)])
                   ELSE openers
       ELSE UNCHANGED <<emitted, openers>>
    /\ pos' = pos + 1
    /\ used' = 0
    /\ UNCHANGED <<input, ended>>
    /\ UNCHANGED <<lineVars, storeVars, footnoteVars, blockVars, schedVars, cacheVars, docVars>>

PairInit == FootnoteIdle /\ BlockIdle /\ StoreIdle /\ LineIdle /\ SchedIdle /\ CacheIdle /\ PairIdle /\ DocIdle

PairNext ==
    \/ \E r \in Runs : ReadRun(r)
    \/ EndOfInput
    \/ ScanText
    \/ Pair
    \/ PushRun

PairSpec == PairInit /\ [][PairNext]_vars


\* ------------------------------------------------ documents of core rules

\* a node with its payload's fields: heading level, HTML content, anchor
\* href and id; attrs is the list of (name, value) render attributes
DocNode(kind, level, content, children) ==
    [kind |-> kind, level |-> level, content |-> content, attrs |-> <<>>,
     children |-> children, href |-> None, id |-> None]

TextNode(text) == DocNode("Text", 0, text, <<>>)

HeadingKinds == {"ATXHeading", "SetextHeader"}

RECURSIVE CollectText(_)
\* Node::collect_text: the text of the leaves, depth first
CollectText(ns) ==
    IF ns = <<>> THEN <<>>
    ELSE LET n == Head(ns)
         IN (IF n.kind = "Text" THEN n.content ELSE <<>>)
                \o CollectText(n.children) \o CollectText(Tail(ns))

\* ------------------------------------------------ heading anchors

\* setext headings have the levels of their two underlines
SetextLevels == 1..2

\* the blocks of a document given to AddHeadingAnchors
AnchorBlocks ==
    {DocNode("ATXHeading", l, <<>>, <<TextNode(<<"t">>)>>) : l \in 1..MaxLevel}
      \cup {DocNode("SetextHeader", l, <<>>, <<TextNode(<<"t">>)>>) :
              l \in SetextLevels}
      \cup {DocNode("Paragraph", 0, <<>>, <<TextNode(<<"t">>)>>)}

\* the options add_with_options may store for the rule
AnchorOptionSets ==
    [min_level : 1..MaxLevel, max_level : 1..MaxLevel,
     id_on_heading : BOOLEAN, position : {"Start", "End", "None"},
     classes : {<<"anchor">>}, inner_html : {<<>>}]

\* Slugger::slug: the text, made distinct from the slugs given before by a
\* counter suffix
Slug(text, seen) ==
    LET n == Cardinality({i \in 1..Len(seen) : seen[i] = text})
    IN IF n = 0 THEN text ELSE text \o <<"-", n>>

\* a range test that forgets the upper end
LevelInRangeMinOnly(options, level) == level >= options.min_level

\* the level test of the rule: neither below min_level nor above max_level
LevelInRange(options, level) ==
    ~(level < options.min_level \/ level > options.max_level)

\* the anchor link the rule builds for a heading with slug id
LinkNode(options, id) ==
    [DocNode("HeadingAnchor", 0, <<>>,
             <<DocNode("HtmlInline", 0, options.inner_html, <<>>)>>)
     EXCEPT !.href = Some(id),
            !.id = IF options.id_on_heading THEN None ELSE Some(id),
            !.attrs = <<<<"aria-hidden", "true">>>>
                        \o [i \in 1..Len(options.classes) |->
                               <<"class", options.classes[i]>>]]

\* the closure of the rule on one node: a heading inside the range gets its
\* id attribute and its anchor child, any other node is left alone
AnchorVisit(options, n, seen) ==
    IF n.kind \in HeadingKinds /\ LevelInRange(options, n.level)
    THEN LET id == Slug(CollectText(n.children), seen)
             link_node == LinkNode(options, id)
         IN [n EXCEPT
               !.attrs = IF options.id_on_heading
                         THEN Append(@, <<"id", id>>) ELSE @,
               !.children =
                   CASE options.position = "Start" -> <<link_node>> \o @
                     [] options.position = "End" -> Append(@, link_node)
                     [] options.position = "None" -> @]
    ELSE n

\* the slugs the slugger has given after the visit of n
AnchorSeen(options, n, seen) ==
    IF n.kind \in HeadingKinds /\ LevelInRange(options, n.level)
    THEN Append(seen, CollectText(n.children))
    ELSE seen

RECURSIVE AnchorWalk(_, _, _)
\* Node::walk_mut over a list of siblings: each node is visited, then its
\* children as the visit left them; the result carries the slugger along
AnchorWalk(options, ns, seen) ==
    IF ns = <<>> THEN [nodes |-> <<>>, seen |-> seen]
    ELSE LET n == AnchorVisit(options, Head(ns), seen)
             below == AnchorWalk(options, n.children,
                                 AnchorSeen(options, Head(ns), seen))
             rest == AnchorWalk(options, Tail(ns), below.seen)
         IN [nodes |-> <<[n EXCEPT !.children = below.nodes]>> \o rest.nodes,
             seen |-> rest.seen]

\* the block phase hands over a block
AddBlock(b) ==
    /\ coreRan = {}
    /\ Len(doc) < MaxBlocks
    /\ doc' = Append(doc, b)
    /\ UNCHANGED <<docBefore, coreRan, anchorOptions>>
    /\ UNCHANGED <<lineVars, storeVars, footnoteVars, blockVars, schedVars, cacheVars, pairVars>>

\* AddHeadingAnchors::run
AddHeadingAnchorsRun ==
    /\ "AddHeadingAnchors" \notin coreRan
    /\ docBefore' = doc
    /\ doc' = AnchorWalk(anchorOptions, doc, <<>>).nodes
    /\ coreRan' = coreRan \cup {"AddHeadingAnchors"}
    /\ UNCHANGED anchorOptions
    /\ UNCHANGED <<lineVars, storeVars, footnoteVars, blockVars, schedVars, cacheVars, pairVars>>

\* a parser whose heading_anchors::add_with_options stored some options
AnchorInit ==
    /\ FootnoteIdle /\ BlockIdle /\ StoreIdle /\ LineIdle /\ SchedIdle /\ CacheIdle /\ PairIdle
    /\ doc = <<>>
    /\ docBefore = <<>>
    /\ coreRan = {}
    /\ anchorOptions \in AnchorOptionSets

AnchorNext ==
    \/ \E b \in AnchorBlocks : AddBlock(b)
    \/ AddHeadingAnchorsRun

AnchorSpec == AnchorInit /\ [][AnchorNext]_vars


\* ------------------------------------------------ tag filter

\* strings are sequences of characters; the names of the regex
\* <(?i)(iframe|noembed|noframes|plaintext|script|title|textarea|xmp)
Denylist ==
    <<<<"i", "f", "r", "a", "m", "e">>,
      <<"n", "o", "e", "m", "b", "e", "d">>,
      <<"n", "o", "f", "r", "a", "m", "e", "s">>,
      <<"p", "l", "a", "i", "n", "t", "e", "x", "t">>,
      <<"s", "c", "r", "i", "p", "t">>,
      <<"t", "i", "t", "l", "e">>,
      <<"t", "e", "x", "t", "a", "r", "e", "a">>,
      <<"x", "m", "p">>>>

UpperCase ==
    <<"A", "B", "C", "D", "E", "F", "G", "H", "I", "J", "K", "L", "M", "N",
      "O", "P", "Q", "R", "S", "T", "U", "V", "W", "X", "Y", "Z">>

LowerCase ==
    <<"a", "b", "c", "d", "e", "f", "g", "h", "i", "j", "k", "l", "m", "n",
      "o", "p", "q", "r", "s", "t", "u", "v", "w", "x", "y", "z">>

\* (?i): a letter matches in either case
Lower(c) ==
    IF IndexOf(UpperCase, c) > 0 THEN LowerCase[IndexOf(UpperCase, c)] ELSE c

\* the name of the alternation that matches the characters of s from
\* position i on, as its index in the denylist; 0 when none does
NameAt(s, i) ==
    LET hits == {k \in 1..Len(Denylist) :
                   /\ i + Len(Denylist[k]) - 1 <= Len(s)
                   /\ \A j \in 1..Len(Denylist[k]) :
                          Lower(s[i + j - 1]) = Denylist[k][j]}
    IN IF hits = {} THEN 0 ELSE CHOOSE k \in hits : \A h \in hits : k <= h

RECURSIVE ReplaceAllFrom(_, _)
\* Regex::replace_all(content, "&lt;$1"): the matches are found from left to
\* right; a match gives "&lt;" and the letters of its name as they were
ReplaceAllFrom(s, i) ==
    IF i > Len(s) THEN <<>>
    ELSE IF s[i] = "<" /\ NameAt(s, i + 1) > 0
    THEN LET n == Len(Denylist[NameAt(s, i + 1)])
         IN <<"&", "l", "t", ";">> \o SubSeq(s, i + 1, i + n)
                \o ReplaceAllFrom(s, i + n + 1)
    ELSE <<s[i]>> \o ReplaceAllFrom(s, i + 1)

ReplaceAll(s) == ReplaceAllFrom(s, 1)

\* a filter that looks at HTML blocks alone
TagFilterKindsBlockOnly == {"HtmlBlock"}

\* the payloads the closure casts the node to
TagFilterKinds == {"HtmlBlock", "HtmlInline"}

RECURSIVE TagFilterWalk(_)
\* Node::walk_mut with the closure of the rule, over a list of siblings
TagFilterWalk(ns) ==
    IF ns = <<>> THEN <<>>
    ELSE LET n == Head(ns)
             visited == IF n.kind \in TagFilterKinds
                        THEN [n EXCEPT !.content = ReplaceAll(@)] ELSE n
         IN <<[visited EXCEPT !.children = TagFilterWalk(@)]>>
                \o TagFilterWalk(Tail(ns))

\* the pieces raw HTML and text are made of in the documents given to the rule
Chunks ==
    {<<"<">>, <<">">>, <<"d", "i", "v">>,
     <<"i", "f", "r", "a", "m", "e">>,
     <<"N", "O", "E", "M", "B", "E", "D">>,
     <<"n", "o", "f", "r", "a", "m", "e", "s">>,
     <<"P", "l", "a", "i", "n", "T", "e", "x", "t">>,
     <<"s", "c", "r", "i", "p", "t">>,
     <<"T", "i", "t", "l", "e">>,
     <<"t", "e", "x", "t", "a", "r", "e", "a">>,
     <<"X", "M", "P">>}

RECURSIVE Contents(_)
\* the strings of at most k chunks
Contents(k) ==
    IF k = 0 THEN {<<>>}
    ELSE LET shorter == Contents(k - 1)
         IN shorter \cup {sc[1] \o sc[2] : sc \in shorter \X Chunks}

\* an HTML block, or a paragraph around inline HTML or around text
FilterBlocks(content) ==
    {DocNode("HtmlBlock", 0, content, <<>>),
     DocNode("Paragraph", 0, <<>>, <<DocNode("HtmlInline", 0, content, <<>>)>>),
     DocNode("Paragraph", 0, <<>>, <<TextNode(content)>>)}

\* the earlier phases hand over a document of one block
AddHtml ==
    /\ coreRan = {}
    /\ doc = <<>>
    /\ \E content \in Contents(MaxChunks) :
           \E b \in FilterBlocks(content) : doc' = <<b>>
    /\ UNCHANGED <<docBefore, coreRan, anchorOptions>>
    /\ UNCHANGED <<lineVars, storeVars, footnoteVars, blockVars, schedVars, cacheVars, pairVars>>

\* TagFilter::run
TagFilterRun ==
    /\ "TagFilter" \notin coreRan
    /\ docBefore' = doc
    /\ doc' = TagFilterWalk(doc)
    /\ coreRan' = coreRan \cup {"TagFilter"}
    /\ UNCHANGED anchorOptions
    /\ UNCHANGED <<lineVars, storeVars, footnoteVars, blockVars, schedVars, cacheVars, pairVars>>

FilterInit == FootnoteIdle /\ BlockIdle /\ StoreIdle /\ LineIdle /\ SchedIdle /\ CacheIdle /\ PairIdle /\ DocIdle

FilterNext ==
    \/ AddHtml
    \/ TagFilterRun

FilterSpec == FilterInit /\ [][FilterNext]_vars


\* ------------------------------------------------------- the parse

Init == FootnoteIdle /\ BlockIdle /\ StoreIdle /\ LineIdle /\ SchedIdle /\ CacheIdle /\ PairIdle /\ DocIdle

Next ==
    \/ \E label \in Labels, spaces \in Spaces :
            DefinitionScannerRun(label, spaces)
    \/ DefinitionScannerReturn
    \/ BlockAccept
    \/ BlockquoteRun
    \/ BlockquoteReturn
    \/ ParagraphRun
    \/ ReferenceScannerRun
    \/ BlockDone
    \/ \E p \in OpenParagraphs, label \in Labels : InlineReference(p, label)
    \/ \E p \in OpenParagraphs : InlineFootnote(p)
    \/ InlineDone
    \/ FootnoteBackrefRuleRun
    \/ FootnoteCollectRuleRun

Spec == Init /\ [][Next]_vars


\* ------------------------------------------------------ extension store

\* store operations of one run
MaxOps == 3

\* the value types kept in the store of the parser, and values of each
StoreTypes == {"HeadingAnchorOptions", "FootnoteMap"}

CustomOptions ==
    {[HeadingAnchorOptionsDefault EXCEPT !.min_level = 2],
     [HeadingAnchorOptionsDefault EXCEPT !.id_on_heading = TRUE,
                                         !.position = "End"]}

StoreValues(t) ==
    IF t = "HeadingAnchorOptions"
    THEN {HeadingAnchorOptionsDefault} \cup CustomOptions
    ELSE {FootnoteMapDefault, AddInlineDef(FootnoteMapDefault).map}

\* T::default()
DefaultOf(t) ==
    IF t = "HeadingAnchorOptions" THEN HeadingAnchorOptionsDefault
    ELSE FootnoteMapDefault

StoreOp(op, t, arg, ret) ==
    [op |-> op, type |-> t, arg |-> arg, ret |-> ret, before |-> mdExt]

\* md.ext.insert(v)
StoreInsert(t, v) ==
    /\ ops < MaxOps
    /\ mdExt' = ExtInsert(mdExt, t, v)
    /\ lastOp' = Some(StoreOp("insert", t, Some(v), None))
    /\ ops' = ops + 1
    /\ UNCHANGED <<lineVars, footnoteVars, blockVars, schedVars, cacheVars, pairVars,
                   docVars>>

\* md.ext.get_or_insert_default::<T>()
StoreGetOrInsertDefault(t) ==
    /\ ops < MaxOps
    /\ mdExt' = ExtGetOrInsertDefault(mdExt, t, DefaultOf(t))
    /\ lastOp' = Some(StoreOp("get_or_insert_default", t, None, Some(mdExt'[t])))
    /\ ops' = ops + 1
    /\ UNCHANGED <<lineVars, footnoteVars, blockVars, schedVars, cacheVars, pairVars,
                   docVars>>

\* md.ext.take::<T>()
StoreTake(t) ==
    /\ ops < MaxOps
    /\ mdExt' = ExtTake(mdExt, t).store
    /\ lastOp' = Some(StoreOp("take", t, None, ExtTake(mdExt, t).ret))
    /\ ops' = ops + 1
    /\ UNCHANGED <<lineVars, footnoteVars, blockVars, schedVars, cacheVars, pairVars,
                   docVars>>

\* md.ext.get::<T>()
StoreGet(t) ==
    /\ ops < MaxOps
    /\ lastOp' = Some(StoreOp("get", t, None, ExtGet(mdExt, t)))
    /\ ops' = ops + 1
    /\ UNCHANGED <<mdExt>>
    /\ UNCHANGED <<lineVars, footnoteVars, blockVars, schedVars, cacheVars, pairVars,
                   docVars>>

\* heading_anchors::add(md)
HeadingAnchorsAddCall ==
    /\ ops < MaxOps
    /\ mdExt' = ExtGetOrInsertDefault(mdExt, "HeadingAnchorOptions",
                                      HeadingAnchorOptionsDefault)
    /\ registered' = registered \o HeadingAnchorsAdd
    /\ lastOp' = Some(StoreOp("add", "HeadingAnchorOptions", None, None))
    /\ ops' = ops + 1
    /\ UNCHANGED <<called, built>>
    /\ UNCHANGED <<lineVars, footnoteVars, blockVars, cacheVars, pairVars, docVars>>

\* heading_anchors::add_with_options(md, options)
HeadingAnchorsAddWithOptions(options) ==
    /\ ops < MaxOps
    /\ mdExt' = ExtInsert(mdExt, "HeadingAnchorOptions", options)
    /\ registered' = registered \o HeadingAnchorsAdd
    /\ lastOp' = Some(StoreOp("add_with_options", "HeadingAnchorOptions",
                              Some(options), None))
    /\ ops' = ops + 1
    /\ UNCHANGED <<called, built>>
    /\ UNCHANGED <<lineVars, footnoteVars, blockVars, cacheVars, pairVars, docVars>>

StoreInit ==
    /\ FootnoteIdle /\ BlockIdle /\ StoreIdle /\ LineIdle /\ SchedIdle /\ CacheIdle
    /\ PairIdle /\ DocIdle

StoreNext ==
    \/ \E t \in StoreTypes : \E v \in StoreValues(t) : StoreInsert(t, v)
    \/ \E t \in StoreTypes : StoreGetOrInsertDefault(t)
    \/ \E t \in StoreTypes : StoreTake(t)
    \/ \E t \in StoreTypes : StoreGet(t)
    \/ HeadingAnchorsAddCall
    \/ \E options \in CustomOptions : HeadingAnchorsAddWithOptions(options)

StoreSpec == StoreInit /\ [][StoreNext]_vars

\* ---------------------------------------------------------------- is_def

\* characters of one line
MaxLineLen == 6

\* the characters is_def tells apart; "a" stands for every other character
LineChars == {"[", "^", "]", ":", " ", "\t", "a"}

RECURSIVE GatherLabel(_, _, _)
\* the loop that gathers the label, from character i on: Some(<<label, j>>)
\* with j the position after "]:", None where the loop returns None
GatherLabel(chars, i, label) ==
    IF i > Len(chars) THEN None
    ELSE IF chars[i] = "]"
         THEN IF i + 1 <= Len(chars) /\ chars[i + 1] = ":"
              THEN Some(<<label, i + 2>>)
              ELSE None
    ELSE IF chars[i] = " " THEN None
    ELSE GatherLabel(chars, i + 1, Append(label, chars[i]))

RECURSIVE CountSpaces(_, _, _)
\* the loop that counts the spaces and tabs from character i on
CountSpaces(chars, i, spaces) ==
    IF i > Len(chars) THEN spaces
    ELSE IF chars[i] = " " THEN CountSpaces(chars, i + 1, spaces + 1)
    ELSE IF chars[i] = "\t" THEN CountSpaces(chars, i + 1, spaces + 1)
    ELSE spaces

\* FootnoteDefinitionScanner::is_def on a line with the characters chars:
\* Some(<<label, spaces>>) or None
IsDef(chars, indent_reached) ==
    IF indent_reached THEN None
    ELSE IF Len(chars) < 1 \/ chars[1] # "[" THEN None
    ELSE IF Len(chars) < 2 \/ chars[2] # "^" THEN None
    ELSE LET g == GatherLabel(chars, 3, <<>>)
         IN IF g = None THEN None
            ELSE IF Unwrap(g)[1] = <<>> THEN None
            ELSE Some(<<Unwrap(g)[1], CountSpaces(chars, Unwrap(g)[2], 0)>>)

\* one more character of the line
ReadChar(c) ==
    /\ isDef = None
    /\ Len(lineText) < MaxLineLen
    /\ lineText' = Append(lineText, c)
    /\ UNCHANGED <<indented, isDef>>
    /\ UNCHANGED <<footnoteVars, blockVars, storeVars, schedVars, cacheVars,
                   pairVars, docVars>>

\* the block parser tries the rule on the line
IsDefCall(indent_reached) ==
    /\ isDef = None
    /\ indented' = indent_reached
    /\ isDef' = Some(IsDef(lineText, indent_reached))
    /\ UNCHANGED <<lineText>>
    /\ UNCHANGED <<footnoteVars, blockVars, storeVars, schedVars, cacheVars,
                   pairVars, docVars>>

DefInit ==
    /\ FootnoteIdle /\ BlockIdle /\ StoreIdle /\ LineIdle /\ SchedIdle
    /\ CacheIdle /\ PairIdle /\ DocIdle

DefNext ==
    \/ \E c \in LineChars : ReadChar(c)
    \/ \E indent_reached \in BOOLEAN : IsDefCall(indent_reached)

DefSpec == DefInit /\ [][DefNext]_vars

\* ---------------------------------------------------------------- claims

\* the footnote map of the parse, as the inline phase left it
ParsedMap ==
    IF "FootnoteMap" \in DOMAIN parsed.ext THEN parsed.ext["FootnoteMap"]
    ELSE FootnoteMapDefault

RuleRan(rule) == phase = "core" /\ \E i \in 1..ran : rules[i] = rule

CollectRan == RuleRan("FootnoteCollectRule")

BackrefRan == RuleRan("FootnoteBackrefRule")

\* the reference occurrences recorded for the id of definition d
RefsOf(d) == BackrefIds(ParsedMap, nodes[d])

\* every definition node the parse created, in the tree or not
AllDefinitions == {d \in 1..Len(nodes) : IsDefinition(nodes, d)}

Containers == {c \in InTree(nodes) : KindOf(nodes, c) = "FootnotesContainerNode"}

InContainer(d) == \E c \in Containers : d \in Range(nodes[c].children)

\* the definitions of the parsed document that lie inside another definition
NestedInDefinition(d) ==
    \E a \in DefinitionsInTree(parsed.nodes) :
        a # d /\ d \in Range(PreOrderFrom(parsed.nodes, <<a>>))

\* C1: each footnote core rule puts the root's extension store back: after
\* the rule, on every exit path, the store holds the typed values it held
\* when the rule started.
C1_StoreRestored == (phase = "core" /\ ran > 0) => ext = extBefore

\* C2: after FootnoteCollectRule::run, every definition with an id that is
\* referenced is a direct child of the footnotes container, and no
\* definition remains anywhere else in the tree.
C2_DefinitionsCollected ==
    CollectRan =>
        /\ \A d \in AllDefinitions : RefsOf(d) # <<>> => InContainer(d)
        /\ \A d \in DefinitionsInTree(nodes) : InContainer(d)

\* C3: after FootnoteCollectRule::run, no definition whose id has zero
\* recorded references exists anywhere in the tree.
C3_UnreferencedAbsent ==
    CollectRan =>
        \A d \in DefinitionsInTree(nodes) :
            IsSome(nodes[d].def_id) => RefsOf(d) # <<>>

\* C4: after FootnoteCollectRule::run the tree has a footnotes container
\* exactly when a definition survived; it is the one container, the last
\* child of the root, and its children are the surviving definitions in the
\* order of their first occurrence in the document.
C4_ContainerInDocumentOrder ==
    CollectRan =>
        /\ Cardinality(Containers) <= 1
        /\ \A c \in Containers :
              /\ c = Last(nodes[RootId].children)
              /\ nodes[c].children # <<>>
              /\ nodes[c].children =
                    SelectSeq(PreOrder(parsed.nodes),
                              LAMBDA d : d \in Range(nodes[c].children))
        /\ Containers = {} =>
              \A d \in DefinitionsInTree(parsed.nodes) :
                  RefsOf(d) # <<>> => NestedInDefinition(d)

\* the definitions of label l, in document order
DefinitionsOfLabel(ns, l) ==
    SelectSeq(PreOrder(ns),
              LAMBDA d : IsDefinition(ns, d) /\ ns[d].label = Some(l))

\* C7: when a label is defined more than once, the output holds at most one
\* definition of that label after collection, and it is the first one in
\* document order.
C7_FirstDefinitionOnly ==
    CollectRan =>
        \A l \in Labels :
            LET before == DefinitionsOfLabel(parsed.nodes, l)
                after == DefinitionsOfLabel(nodes, l)
            IN Len(after) <= 1 /\ (after # <<>> => after[1] = before[1])


\* the back-reference anchors attached to definition d: among its children,
\* and among the children of its final child when that is a paragraph
AnchorsOf(ns, d) ==
    LET t == BackrefTarget(ns, d)
    IN {a \in Range(ns[d].children) \cup Range(ns[t].children) :
            KindOf(ns, a) = "FootnoteRefAnchor"}

\* C5: after FootnoteBackrefRule::run, a definition in the tree whose id
\* has k >= 1 recorded references renders exactly k back links, with the
\* hrefs #fnref<ref_id> in the order the references were recorded; a
\* definition with k = 0 or without id has no anchor node.
C5_OneBackLinkPerReference ==
    BackrefRan =>
        \A d \in DefinitionsInTree(nodes) :
            LET refs == IF IsSome(nodes[d].def_id)
                        THEN ReferencedBy(ParsedMap, Unwrap(nodes[d].def_id))
                        ELSE <<>>
                anchors == AnchorsOf(nodes, d)
            IN IF refs = <<>> THEN anchors = {}
               ELSE /\ Cardinality(anchors) = 1
                    /\ \A a \in anchors :
                          LET links == AnchorRender(nodes[a].ref_ids)
                          IN /\ Len(links) = Len(refs)
                             /\ \A i \in 1..Len(refs) :
                                   links[i] = <<"#fnref", refs[i]>>

\* a definition referenced twice got its two back links
C5_Witness ==
    /\ BackrefRan
    /\ \E d \in DefinitionsInTree(nodes) :
          /\ Len(RefsOf(d)) >= 2
          /\ \E a \in AnchorsOf(nodes, d) :
                Len(AnchorRender(nodes[a].ref_ids)) >= 2

IsPrefix(s, t) == Len(s) <= Len(t) /\ SubSeq(t, 1, Len(s)) = s

\* the step of the node table from ns to ms added one anchor as the last
\* child of node t
AnchorPushed(ns, ms, t) ==
    /\ Len(ms[t].children) = Len(ns[t].children) + 1
    /\ IsPrefix(ns[t].children, ms[t].children)
    /\ Last(ms[t].children) > Len(ns)
    /\ KindOf(ms, Last(ms[t].children)) = "FootnoteRefAnchor"

\* C6: FootnoteBackrefRule::run pushes the anchor of a referenced definition
\* as the last child of the definition's last child when that is a
\* Paragraph, and as the last child of the definition itself otherwise;
\* the children that were there keep their order.
C6_AnchorPlacement ==
    [][(phase = "core" /\ NextRule = "FootnoteBackrefRule" /\ ran' = ran + 1) =>
          \A d \in DefinitionsInTree(nodes) :
              LET kids == nodes[d].children
                  referenced == BackrefIds(ParsedMap, nodes[d]) # <<>>
                  onParagraph == kids # <<>>
                                 /\ KindOf(nodes, Last(kids)) = "Paragraph"
              IN /\ referenced /\ onParagraph =>
                      /\ nodes'[d].children = kids
                      /\ AnchorPushed(nodes, nodes', Last(kids))
                 /\ referenced /\ ~onParagraph =>
                      AnchorPushed(nodes, nodes', d)
                 /\ ~referenced => nodes'[d].children = kids
                 /\ \A c \in Range(kids) :
                      IsPrefix(nodes[c].children, nodes'[c].children)]_vars

\* the rule ran on a tree with a definition whose last child is a paragraph
\* and one whose last child is not; each got its anchor
C6_Witness ==
    /\ BackrefRan
    /\ \E d \in DefinitionsInTree(nodes) :
          /\ BackrefTarget(nodes, d) # d
          /\ nodes[BackrefTarget(nodes, d)].children # <<>>
          /\ KindOf(nodes, Last(nodes[BackrefTarget(nodes, d)].children))
                = "FootnoteRefAnchor"
    /\ \E d \in DefinitionsInTree(nodes) :
          /\ BackrefTarget(nodes, d) = d
          /\ Len(nodes[d].children) >= 2
          /\ KindOf(nodes, Last(nodes[d].children)) = "FootnoteRefAnchor"

\* the footnote map of a store, the default one when the store has none
MapOf(e) ==
    IF "FootnoteMap" \in DOMAIN e THEN e["FootnoteMap"] ELSE FootnoteMapDefault

\* C9: during the parse the footnote map gives each distinct label exactly
\* one id; the ids follow the order in which the labels were first sighted
\* (by a definition or by a reference), whatever the number of references
\* of each, and the id of a label never changes.
C9_IdsInFirstSightOrder ==
    [][phase' \in {"block", "inline"} =>
          /\ MapOf(ext').labels = sightings'
          /\ \A l \in Labels :
                /\ Cardinality(LabelIds(MapOf(ext'), l)) <= 1
                /\ LabelIds(MapOf(ext), l) \subseteq LabelIds(MapOf(ext'), l)]_vars

\* two labels have ids; the one sighted second was first sighted by a
\* reference and has more references than the one sighted first
C9_Witness ==
    /\ phase = "inline"
    /\ \E i, j \in 1..Len(MapOf(ext).labels) :
          /\ i < j
          /\ MapOf(ext).labels[i] \in Labels
          /\ MapOf(ext).labels[j] \in Labels
          /\ j \notin MapOf(ext).defined
          /\ Len(MapOf(ext).refs[i]) < Len(MapOf(ext).refs[j])


\* C8: in a parser that registered both footnote core rules, in whatever
\* order their add functions were called, the resolved core order runs
\* FootnoteBackrefRule before FootnoteCollectRule.
C8_BackrefBeforeCollect ==
    (IsSome(built) /\ {"back_refs", "collect"} \subseteq called) =>
        LET core == Unwrap(built).core
        IN /\ IndexOf(core, "FootnoteBackrefRule") > 0
           /\ IndexOf(core, "FootnoteBackrefRule")
                < IndexOf(core, "FootnoteCollectRule")

\* C10: a cache entry survives exactly as many sweeps as the liveness count
\* recorded at its last access: after s >= 1 calls of clean without an
\* access in between, the entry is present exactly when s is below that
\* count, for every count the code records, and no call fails.
C10_SurvivesRecordedCount ==
    /\ ~panicked
    /\ \A k \in DOMAIN recorded :
          sweeps[k] >= 1 => (k \in DOMAIN cache <=> sweeps[k] < recorded[k])

\* the entries of c other than k keep their value and their counter
OthersUnchanged(c, d, k) ==
    /\ DOMAIN d \ {k} = DOMAIN c \ {k}
    /\ \A x \in DOMAIN c \ {k} : d[x] = c[x]

\* C11: every Cache::get_or_insert call does exactly one of two things: on an
\* absent entry it invokes the render function once and stores its result; on
\* a present entry it returns the stored string unchanged, does not invoke
\* the render function and adds exactly 1 to the entry's liveness counter.
\* No other entry's value or counter changes.
C11_ComputeOrIncrement ==
    [][\A plugin_name \in PluginNames, key \in CacheKeys :
          GetOrInsert(plugin_name, key) =>
              LET k == CacheEntryKey(plugin_name, key)
              IN /\ ~panicked'
                 /\ k \in DOMAIN cache'
                 /\ OthersUnchanged(cache, cache', k)
                 /\ IF k \in DOMAIN cache
                    THEN /\ ~invoked'
                         /\ returned' = Some(cache[k].value)
                         /\ cache'[k].value = cache[k].value
                         /\ cache'[k].lifetime = cache[k].lifetime + 1
                    ELSE /\ invoked'
                         /\ cache'[k].value = RenderFunction(key)
                         /\ returned' = Some(RenderFunction(key))]_vars

\* C12: the cache is keyed by the pair (plugin name, key): an access never
\* receives the fragment computed for another pair, names and keys that
\* contain '_' included, so what get_or_insert returns for (plugin_name, key)
\* is the fragment the render function computes for that key.
C12_KeyedByPair ==
    [][\A plugin_name \in PluginNames, key \in CacheKeys :
          (GetOrInsert(plugin_name, key) /\ ~panicked') =>
              returned' = Some(RenderFunction(key))]_vars

\* the rules of phase ph in registration order, and the order built for it
RegisteredIn(ph) == SelectSeq(registered, LAMBDA r : r.phase = ph)

BuiltOrder(ph) == IF ph = "core" THEN Unwrap(built).core ELSE Unwrap(built).block

\* rule x is declared to run before rule y, read off the two descriptors
DeclaredBefore(x, y) == y.name \in x.before \/ x.name \in y.after

\* pairs <<i, j>> of registered rules of rs with i declared before j,
\* directly or through a chain of declarations
DeclaredPairs(rs) ==
    {ij \in (1..Len(rs)) \X (1..Len(rs)) : DeclaredBefore(rs[ij[1]], rs[ij[2]])}

RECURSIVE Chains(_)
Chains(R) ==
    LET joined == {ab \in R \X R : ab[1][2] = ab[2][1]}
        longer == R \cup {<<ab[1][1], ab[2][2]>> : ab \in joined}
    IN IF longer = R THEN R ELSE Chains(longer)

Related(rs) == Chains(DeclaredPairs(rs))

Acyclic(rs) == LET rel == Related(rs) IN \A i \in 1..Len(rs) : <<i, i>> \notin rel

Phases == {"core", "block"}

\* C13: when the constraints of a phase's registered rules are acyclic, the
\* resolved order holds every registered rule once, places each rule after
\* every rule it is declared to run after and before every rule it is declared
\* to run before, and is the order any build of the same registration
\* sequence resolves to.
C13_OrderSatisfiesConstraints ==
    IsSome(built) =>
        \A ph \in Phases :
            LET rs == RegisteredIn(ph)
                order == BuiltOrder(ph)
            IN Acyclic(rs) =>
                /\ Len(order) = Len(rs)
                /\ \A i \in 1..Len(rs) : IndexOf(order, rs[i].name) > 0
                /\ \A i, j \in 1..Len(rs) :
                       DeclaredBefore(rs[i], rs[j]) =>
                           IndexOf(order, rs[i].name) < IndexOf(order, rs[j].name)
                /\ order = Resolve(registered, ph)

\* C13 witness: a built parser whose block rules carry two constraints, one
\* before and one after, with the rule they name registered on either side
C13_Witness ==
    /\ IsSome(built)
    /\ Acyclic(RegisteredIn("block")) /\ Acyclic(RegisteredIn("core"))
    /\ BuiltOrder("block") =
           <<"FootnoteDefinitionScanner", "ReferenceScanner", "PluginBlockRule">>
    /\ RegisteredIn("block")[1].name = "PluginBlockRule"
    /\ RegisteredIn("block")[1].after = {"ReferenceScanner"}
    /\ "TagFilter" \in Range(BuiltOrder("core"))
    /\ "AddHeadingAnchors" \in Range(BuiltOrder("core"))

\* C14: in the resolved order of a phase with acyclic constraints, two rules
\* with no declared ordering relation between them (directly or through other
\* rules) appear in the order in which they were registered.
C14_UnrelatedKeepRegistrationOrder ==
    IsSome(built) =>
        \A ph \in Phases :
            LET rs == RegisteredIn(ph)
                order == BuiltOrder(ph)
                rel == Related(rs)
            IN Acyclic(rs) =>
                \A i, j \in 1..Len(rs) :
                    (i < j /\ <<i, j>> \notin rel /\ <<j, i>> \notin rel) =>
                        IndexOf(order, rs[i].name) < IndexOf(order, rs[j].name)

\* the scan has dealt with every run of a finished span
ScanDone == ended /\ pos = Len(input)

\* the spans `**a*b**` and `*a**b*`; the scan sees of a text run only
\* whether it is made of word characters, so both words are the run "a"
Span_StrongAroundStar ==
    <<MarkerRun("*", 2), TextRun("a"), MarkerRun("*", 1), TextRun("a"),
      MarkerRun("*", 2)>>

Span_EmAroundStars ==
    <<MarkerRun("*", 1), TextRun("a"), MarkerRun("*", 2), TextRun("a"),
      MarkerRun("*", 1)>>

RECURSIVE MarkerChars(_, _)
\* characters of marker m accounted for by a sequence of nodes: literal marker
\* text counts its length, a wrapper the two runs of its pair and its content
MarkerChars(ns, m) ==
    IF ns = <<>> THEN 0
    ELSE LET n == Head(ns)
             here == IF n.marker # m \/ n.kind = "Text" THEN 0
                     ELSE IF n.kind = "Marker" THEN n.len ELSE 2 * n.len
         IN here + MarkerChars(n.children, m) + MarkerChars(Tail(ns), m)

RECURSIVE InputChars(_, _)
\* characters of marker m in the first n runs of the span
InputChars(n, m) ==
    IF n = 0 THEN 0
    ELSE (IF input[n].kind = "Marker" /\ input[n].marker = m
          THEN input[n].len ELSE 0) + InputChars(n - 1, m)

\* what the scan still has to do: runs to read, the end of the span to learn,
\* runs to deal with, characters of the run under the scan to consume
ScanVariant ==
    (MaxRuns - Len(input)) + (IF ended THEN 0 ELSE 1)
        + 4 * (MaxRuns - pos) - used

\* C16: whatever the span, the scan comes to its end without an error outcome:
\* every step brings it nearer to the end and it is never stuck before the
\* end. Every marker character it has dealt with is either part of a matched
\* pair or emitted as literal marker text, so that at the end the characters
\* consumed plus the characters emitted are those of the input, marker by
\* marker.
C16_NothingLostNothingRejected ==
    /\ [][ScanVariant' < ScanVariant /\ ScanVariant' >= 0]_vars
    /\ [](~ScanDone => ENABLED (EndOfInput \/ ScanText \/ Pair \/ PushRun))
    /\ [](\A m \in Markers :
            MarkerChars(emitted, m) =
                InputChars(pos, m)
                  + (IF pos < Len(input) /\ Current.marker = m THEN used ELSE 0))
    /\ [](ScanDone => \A m \in Markers :
                         MarkerChars(emitted, m) = InputChars(Len(input), m))

\* C16 witness: a finished scan of a span with all three markers that built
\* a Strikethrough and left marker text unmatched
C16_Witness ==
    /\ ScanDone
    /\ {input[i].marker : i \in 1..Len(input)} = Markers \cup {"a"}
    /\ \E i \in 1..Len(emitted) : emitted[i].kind = "Strikethrough"
    /\ \E i \in 1..Len(emitted) : emitted[i].kind = "Marker"

AnchorRan == "AddHeadingAnchors" \in coreRan

\* C17: AddHeadingAnchors::run adds an anchor child or an id attribute to an
\* ATX or setext heading only if min_level <= level <= max_level: a node the
\* rule changed is a heading inside the range, and a heading outside the range
\* has the attributes and the children it had.
C17_AnchorsOnlyInRange ==
    AnchorRan =>
        /\ Len(doc) = Len(docBefore)
        /\ \A i \in 1..Len(doc) :
              /\ doc[i] # docBefore[i] =>
                    /\ docBefore[i].kind \in HeadingKinds
                    /\ anchorOptions.min_level <= docBefore[i].level
                    /\ docBefore[i].level <= anchorOptions.max_level
              /\ (docBefore[i].kind \in HeadingKinds
                    /\ ~(anchorOptions.min_level <= docBefore[i].level
                           /\ docBefore[i].level <= anchorOptions.max_level)) =>
                    /\ doc[i].attrs = docBefore[i].attrs
                    /\ doc[i].children = docBefore[i].children

\* C17 witness: the rule ran on a document with a heading above max_level,
\* left as it was, and a heading inside the range, which got its anchor
C17_Witness ==
    /\ AnchorRan
    /\ \E i, j \in 1..Len(doc) :
          /\ docBefore[i].kind \in HeadingKinds
          /\ docBefore[i].level > anchorOptions.max_level
          /\ doc[i] = docBefore[i]
          /\ docBefore[j].kind \in HeadingKinds
          /\ doc[j].children # docBefore[j].children

\* the characters c and d are one letter, in whatever case
SameLetter(c, d) ==
    \/ c = d
    \/ \E k \in 1..Len(LowerCase) :
           {c, d} \subseteq {LowerCase[k], UpperCase[k]}

\* s has, from position i on, a '<' immediately followed by a denylisted name
ActiveTagAt(s, i) ==
    /\ s[i] = "<"
    /\ \E k \in 1..Len(Denylist) :
          /\ i + Len(Denylist[k]) <= Len(s)
          /\ \A j \in 1..Len(Denylist[k]) : SameLetter(s[i + j], Denylist[k][j])

RECURSIVE EscapedFrom(_, _)
\* s with the '<' of every such occurrence replaced by "&lt;", the other
\* characters as they are
EscapedFrom(s, i) ==
    IF i > Len(s) THEN <<>>
    ELSE (IF ActiveTagAt(s, i) THEN <<"&", "l", "t", ";">> ELSE <<s[i]>>)
            \o EscapedFrom(s, i + 1)

RECURSIVE FilteredAsClaimed(_, _)
\* node by node: raw HTML has its content escaped and nothing else changed,
\* a node of another kind is as it was, its children likewise
FilteredAsClaimed(before, after) ==
    /\ Len(after) = Len(before)
    /\ \A i \in 1..Len(before) :
          LET b == before[i]
              a == after[i]
          IN /\ [a EXCEPT !.children = <<>>, !.content = <<>>]
                   = [b EXCEPT !.children = <<>>, !.content = <<>>]
             /\ IF b.kind \in {"HtmlBlock", "HtmlInline"}
                THEN /\ a.content = EscapedFrom(b.content, 1)
                     /\ \A j \in 1..Len(a.content) : ~ActiveTagAt(a.content, j)
                ELSE a.content = b.content
             /\ FilteredAsClaimed(b.children, a.children)

\* C18: after TagFilter::run no HtmlBlock or HtmlInline content has a '<'
\* immediately followed, in any letter case, by a denylisted name: every such
\* occurrence has its '<' replaced by "&lt;" with the letters of the name
\* kept, every other character is unchanged, and nodes of other kinds are
\* not modified.
C18_DenylistedTagsEscaped ==
    "TagFilter" \in coreRan => FilteredAsClaimed(docBefore, doc)

\* C18 witness: the rule ran on inline HTML that holds a denylisted name in
\* capitals after a '<', and characters that are no part of it
C18_Witness ==
    /\ "TagFilter" \in coreRan
    /\ docBefore = <<DocNode("Paragraph", 0, <<>>,
                       <<DocNode("HtmlInline", 0,
                                 <<"<", "X", "M", "P", ">">>, <<>>)>>)>>
    /\ doc[1].children[1].content = <<"&", "l", "t", ";", "X", "M", "P", ">">>

\* the definition scanner returned in this step
ScannerReturned == scanned = None /\ scanned' # None

\* C19: whenever FootnoteDefinitionScanner::run returns a node, the block
\* indent, the current line, the offsets of the first line and state.node
\* are what they were when the run was entered, and the line count returned
\* is the number of lines the nested tokenize moved on from the first line
C19_ScannerStateRestored ==
    [][ScannerReturned =>
          LET e == Last(frames).atEntry
              r == Unwrap(scanned')
          IN /\ IsDefinition(nodes, r.node)
             /\ blk_indent' = e.blk_indent
             /\ line' = e.line
             /\ line_offsets'[e.line] = e.line_offsets[e.line]
             /\ Last(stack') = e.node
             /\ r.num_lines = (IF line = e.line THEN 1 ELSE line - e.line)]_vars

\* a definition of two lines has just been returned inside another one that
\* starts on the same line, whose moved offsets are in place again
C19_Witness ==
    /\ scanned # None
    /\ Unwrap(scanned).num_lines >= 2
    /\ frames # <<>>
    /\ line = Last(frames).first_line
    /\ line_offsets[line] # LineOffsets(0, 0)
    /\ blk_indent = BlkIndentEnter(0)

\* FootnoteCollectRule::run runs in this step
CollectStep == phase = "core" /\ NextRule = "FootnoteCollectRule" /\ ran' = ran + 1

\* the definitions FootnoteCollectRule::run does not drop: in the tree after
\* the rule, with an id that has a recorded reference
Surviving(ns) ==
    {d \in DefinitionsInTree(ns) : IsSome(ns[d].def_id) /\ RefsOf(d) # <<>>}

\* C20: FootnoteCollectRule::run leaves every surviving definition marked
\* inline with exactly one child, a Paragraph whose children are the
\* definition's former children in their order, and leaves the children of
\* every other surviving definition as they were
C20_InlineDefinitionsWrapped ==
    [][CollectStep =>
          \A d \in Surviving(nodes') :
              IF nodes[d].inline
              THEN /\ Len(nodes'[d].children) = 1
                   /\ KindOf(nodes', nodes'[d].children[1]) = "Paragraph"
                   /\ nodes'[nodes'[d].children[1]].children = nodes[d].children
              ELSE nodes'[d].children = nodes[d].children]_vars

\* the store operation of this step
OpDone == Unwrap(lastOp')

\* the values of every type but t are held as before
OtherTypesKept(t) ==
    /\ DOMAIN mdExt' \ {t} = DOMAIN mdExt \ {t}
    /\ \A x \in DOMAIN mdExt \ {t} : mdExt'[x] = mdExt[x]

Holds(e, t, v) == t \in DOMAIN e /\ e[t] = v

\* C21: the store holds at most one value per type; insert replaces the
\* value of its type; get_or_insert_default on a type that holds a value
\* returns that value and leaves it, and on a type that holds none stores
\* the default; take removes the value and get changes nothing. So
\* heading_anchors::add keeps options stored before it and add_with_options
\* replaces whatever was stored.
C21_OneValuePerType ==
    [][ops' = ops + 1 =>
          LET o == OpDone
              t == o.type
          IN /\ OtherTypesKept(t)
             /\ \A x \in StoreTypes :
                    Cardinality({v \in StoreValues(x) : Holds(mdExt', x, v)}) <= 1
             /\ o.op \in {"insert", "add_with_options"} =>
                    Holds(mdExt', t, Unwrap(o.arg))
             /\ o.op \in {"get_or_insert_default", "add"} =>
                    IF t \in DOMAIN mdExt
                    THEN Holds(mdExt', t, mdExt[t])
                    ELSE Holds(mdExt', t, DefaultOf(t))
             /\ o.op = "get_or_insert_default" => o.ret = Some(mdExt'[t])
             /\ o.op = "take" =>
                    /\ t \notin DOMAIN mdExt'
                    /\ o.ret = (IF t \in DOMAIN mdExt THEN Some(mdExt[t])
                                ELSE None)
             /\ o.op = "get" =>
                    /\ mdExt' = mdExt
                    /\ o.ret = (IF t \in DOMAIN mdExt THEN Some(mdExt[t])
                                ELSE None)]_vars

\* heading_anchors::add was called on a parser that held custom options,
\* which are still there
C21_Witness ==
    /\ lastOp # None
    /\ Unwrap(lastOp).op = "add"
    /\ "HeadingAnchorOptions" \in DOMAIN Unwrap(lastOp).before
    /\ Unwrap(lastOp).before["HeadingAnchorOptions"] \in CustomOptions
    /\ mdExt["HeadingAnchorOptions"] \in CustomOptions

\* the number of spaces and tabs of chars from position i up to the next
\* other character
Blanks(chars, i) ==
    LET stops == {j \in i..Len(chars) : chars[j] \notin {" ", "\t"}}
    IN IF stops = {} THEN Len(chars) + 1 - i
       ELSE (CHOOSE j \in stops : \A k \in stops : j <= k) - i

\* C22: is_def accepts a line only if it starts with "[^", then a label that
\* is not empty and holds no space and no tab, then "]:", and the count it
\* returns with the label is the number of spaces and tabs between the colon
\* and the next other character
C22_AcceptsOnlyDefinitions ==
    (isDef # None /\ Unwrap(isDef) # None) =>
        LET label == Unwrap(Unwrap(isDef))[1]
            spaces == Unwrap(Unwrap(isDef))[2]
            n == Len(label)
        IN /\ n >= 1
           /\ \A i \in 1..n : label[i] \notin {" ", "\t"}
           /\ Len(lineText) >= n + 4
           /\ SubSeq(lineText, 1, n + 4) = <<"[", "^">> \o label \o <<"]", ":">>
           /\ spaces = Blanks(lineText, n + 5)

\* C23: Cache::clean never underflows a liveness counter: whenever a sweep
\* runs, every stored entry has a counter of at least 1 to decrement, so the
\* sweep neither panics nor wraps a counter around
C23_CleanNeverUnderflows ==
    [][Clean => /\ ~panicked'
                /\ \A k \in DOMAIN cache : cache[k].lifetime >= 1]_vars

RECURSIVE OutsideDefinitions(_, _)
\* the nodes below the ids of todo that are no definition and lie in none
OutsideDefinitions(ns, todo) ==
    IF todo = <<>> THEN {}
    ELSE LET n == Head(todo)
         IN IF n = PlaceholderNode \/ IsDefinition(ns, n)
            THEN OutsideDefinitions(ns, Tail(todo))
            ELSE {n} \cup OutsideDefinitions(ns, ns[n].children \o Tail(todo))

\* the nodes of ns that FootnoteCollectRule::run has no business with
Bystanders(ns) == OutsideDefinitions(ns, <<RootId>>)

\* C24: FootnoteCollectRule::run changes only footnote definitions: on every
\* exit path no PlaceholderNode is left in the tree, and every node that was
\* neither a definition nor inside one is still under the same parent, in
\* the same order among the siblings it had
C24_OnlyDefinitionsMoved ==
    [][CollectStep =>
          LET before == InTree(nodes)
              after == InTree(nodes')
              by == Bystanders(nodes)
          IN /\ \A n \in after :
                    /\ KindOf(nodes', n) # "PlaceholderNode"
                    /\ PlaceholderNode \notin Range(nodes'[n].children)
             /\ \A n \in by :
                    /\ n \in after
                    /\ {p \in after : n \in Range(nodes'[p].children)}
                         = {p \in before : n \in Range(nodes[p].children)}
                    /\ SelectSeq(nodes'[n].children, LAMBDA c : c \in by)
                         = SelectSeq(nodes[n].children, LAMBDA c : c \in by)]_vars

\* the rule has taken a referenced definition out from between two
\* paragraphs of the same parent, which are still there, side by side
C24_Witness ==
    /\ CollectRan
    /\ \E p \in InTree(parsed.nodes) :
          \E i \in 2..(Len(parsed.nodes[p].children) - 1) :
              LET kids == parsed.nodes[p].children
              IN /\ IsDefinition(parsed.nodes, kids[i])
                 /\ InContainer(kids[i])
                 /\ KindOf(parsed.nodes, kids[i - 1]) = "Paragraph"
                 /\ KindOf(parsed.nodes, kids[i + 1]) = "Paragraph"
                 /\ p \in Bystanders(parsed.nodes)
                 /\ \E j \in 1..(Len(nodes[p].children) - 1) :
                        /\ nodes[p].children[j] = kids[i - 1]
                        /\ nodes[p].children[j + 1] = kids[i + 1]

\* the places of heading h that carry an id when the heading is rendered:
\* its own id attributes, and its anchor children that hold an id
IdsOnHeading(h) == {j \in 1..Len(h.attrs) : h.attrs[j][1] = "id"}

IdsOnAnchors(h) ==
    {j \in 1..Len(h.children) :
        h.children[j].kind = "HeadingAnchor" /\ h.children[j].id # None}

\* C25: after AddHeadingAnchors::run every heading inside the level range
\* carries its slug as an id exactly once, whatever id_on_heading and the
\* anchor position are: on the heading itself when id_on_heading is set,
\* otherwise on the inserted anchor
C25_SlugIdExactlyOnce ==
    AnchorRan =>
        \A i \in 1..Len(doc) :
            (doc[i].kind \in HeadingKinds
               /\ anchorOptions.min_level <= doc[i].level
               /\ doc[i].level <= anchorOptions.max_level) =>
                /\ Cardinality(IdsOnHeading(doc[i]))
                     + Cardinality(IdsOnAnchors(doc[i])) = 1
                /\ anchorOptions.id_on_heading <=> IdsOnHeading(doc[i]) # {}

====
